---- MODULE Spec2Model ----
(***************************************************************************)
(* A model of the qBittorrent bridge: the session client                   *)
(* (clients/qbittorrent_client.py), the six tools registered on top of it  *)
(* (tools/qbittorrent_tools.py) and the scoped use of the client           *)
(* (main.py).  The qBittorrent daemon and the aiohttp transport are the    *)
(* environment: every network call is answered by a response drawn from    *)
(* Responses.                                                              *)
(***************************************************************************)
EXTENDS Integers, Sequences, FiniteSets, TLC

\* ------------------------------------------------------------------ bounds

\* The number of HTTP requests one run of the model may send.
MaxSent == 3

\* ------------------------------------------------------- the environment

\* HTTP statuses the daemon may answer with, on both sides of the 400 line.
Statuses == {200, 204, 400, 403, 500}

\* Response bodies (resp.text()).
Bodies == {"Ok.", "Fails."}

\* What aiohttp raises when the call does not complete: connection refused,
\* DNS failure, and the expiry of the total timeout the client configures
\* (ClientTimeout(total=timeout)), which aiohttp reports as asyncio.TimeoutError.
TransportFailures == {"ClientConnectorError", "ClientConnectorDNSError", "TimeoutError"}

\* The exception classes `except aiohttp.ClientError` catches.  The connector
\* errors derive from aiohttp.ClientError; asyncio.TimeoutError does not.
IsClientError(exc) == exc \in {"ClientConnectorError", "ClientConnectorDNSError"}

HttpResponse(status, body, json) ==
    [kind |-> "http", status |-> status, body |-> body, json |-> json, exc |-> ""]

TransportFailure(exc) ==
    [kind |-> "fail", status |-> 0, body |-> "", json |-> FALSE, exc |-> exc]

\* Everything one network call can end in; json says that the Content-Type of
\* the response is application/json.
Responses ==
    {HttpResponse(s, b, FALSE) : s \in Statuses, b \in Bodies}
        \cup {HttpResponse(200, b, TRUE) : b \in Bodies}
        \cup {TransportFailure(e) : e \in TransportFailures}

\* No response: the operation did not contact the daemon.
NoResponse == [kind |-> "none", status |-> 0, body |-> "", json |-> FALSE, exc |-> ""]

\* The daemon answers exactly the operations that send a request.
Answers == Responses \cup {NoResponse}

Answered(resp, made) == (resp = NoResponse) <=> (made = <<>>)

\* The status a search job reports on successive polls; the last entry repeats.
StatusScripts == {<<"Running", "Running", "Stopped">>, <<"Stopped">>, <<"Running">>}

\* ------------------------------------------------------ values and errors

NoSession == "None"
OpenSession == "ClientSession"

Msg(text, status, detail) == [text |-> text, status |-> status, detail |-> detail]
NoMsg == Msg("", 0, "")

\* Parsed JSON or raw text, as _request returns it.
Data(json, body) == [json |-> json, body |-> body]
NoValue == Data(FALSE, "")

Return(value) == [kind |-> "ok", msg |-> NoMsg, value |-> value]
Raise(cls, msg) == [kind |-> cls, msg |-> msg, value |-> NoValue]

\* The two client error kinds (subclasses of QBittorrentClientError).
ClientErrorKinds == {"AuthenticationError", "APIError"}

\* An HTTP request as handed to the transport; payload is the form data or the
\* query parameters, as a set of <<key, value>> pairs.
Req(method, endpoint, payload) ==
    [method |-> method, endpoint |-> endpoint, payload |-> payload]

\* A dict literal filtered the way the client filters it: a key whose value is
\* falsy ("" stands for None and for the empty string) is left out.
Filtered(pairs) == {p \in pairs : p[2] # ""}

\* What an operation did: its outcome and the requests it sent.
Did(out, made) == [out |-> out, made |-> made]

VARIABLES
    session,         \* self.session: NoSession or the open aiohttp session
    authenticated,   \* self._authenticated
    scope,           \* the async-with block: "out", "in", or "raising"
    sent,            \* HTTP requests sent so far
    last             \* the operation that ran last, with what it saw and did

vars == <<session, authenticated, scope, sent, last>>

\* ------------------------------------------------------ the session client

\* QBittorrentClient.login with the body accepted on the status alone.
login_StatusOnly(resp) ==
    LET sess == IF session = NoSession THEN OpenSession ELSE session
        made == <<Req("POST", "/api/v2/auth/login",
                      {<<"username", "username">>, <<"password", "password">>})>>
    IN  IF resp.kind = "fail"
        THEN [out |-> IF IsClientError(resp.exc)
                      THEN Raise("AuthenticationError",
                                 Msg("Connection error during authentication", 0, resp.exc))
                      ELSE Raise(resp.exc, NoMsg),
              made |-> made, session |-> sess, authenticated |-> authenticated]
        ELSE IF resp.status # 200
        THEN [out |-> Raise("AuthenticationError",
                            Msg("Authentication failed", resp.status, resp.body)),
              made |-> made, session |-> sess, authenticated |-> authenticated]
        ELSE [out |-> Return(NoValue),
              made |-> made, session |-> sess, authenticated |-> TRUE]

\* QBittorrentClient.login that unsets the flag when the login fails.
login_ClearsOnFailure(resp) ==
    LET sess == IF session = NoSession THEN OpenSession ELSE session
        made == <<Req("POST", "/api/v2/auth/login",
                      {<<"username", "username">>, <<"password", "password">>})>>
    IN  IF resp.kind = "fail"
        THEN [out |-> IF IsClientError(resp.exc)
                      THEN Raise("AuthenticationError",
                                 Msg("Connection error during authentication", 0, resp.exc))
                      ELSE Raise(resp.exc, NoMsg),
              made |-> made, session |-> sess, authenticated |-> FALSE]
        ELSE IF resp.status # 200 \/ resp.body # "Ok."
        THEN [out |-> Raise("AuthenticationError",
                            Msg("Authentication failed", resp.status, resp.body)),
              made |-> made, session |-> sess, authenticated |-> FALSE]
        ELSE [out |-> Return(NoValue),
              made |-> made, session |-> sess, authenticated |-> TRUE]

\* QBittorrentClient.login: open the HTTP session if there is none, POST the
\* credentials, and set the flag only on status 200 with the body "Ok.".  An
\* aiohttp.ClientError becomes an AuthenticationError; any other exception of the
\* transport leaves the method as it is.
login(resp) ==
    LET sess == IF session = NoSession THEN OpenSession ELSE session
        made == <<Req("POST", "/api/v2/auth/login",
                      {<<"username", "username">>, <<"password", "password">>})>>
    IN  IF resp.kind = "fail"
        THEN [out |-> IF IsClientError(resp.exc)
                      THEN Raise("AuthenticationError",
                                 Msg("Connection error during authentication", 0, resp.exc))
                      ELSE Raise(resp.exc, NoMsg),
              made |-> made, session |-> sess, authenticated |-> authenticated]
        ELSE IF resp.status # 200 \/ resp.body # "Ok."
        THEN [out |-> Raise("AuthenticationError",
                            Msg("Authentication failed", resp.status, resp.body)),
              made |-> made, session |-> sess, authenticated |-> authenticated]
        ELSE [out |-> Return(NoValue),
              made |-> made, session |-> sess, authenticated |-> TRUE]

\* QBittorrentClient.close that unsets the flag and keeps the HTTP session.
close_KeepsSession ==
    IF session # NoSession
    THEN [session |-> session, authenticated |-> FALSE]
    ELSE [session |-> session, authenticated |-> authenticated]

\* QBittorrentClient.close that releases the HTTP session and keeps the flag.
close_KeepsFlag ==
    IF session # NoSession
    THEN [session |-> NoSession, authenticated |-> authenticated]
    ELSE [session |-> session, authenticated |-> authenticated]

\* QBittorrentClient.close: everything happens under `if self.session`.
close ==
    IF session # NoSession
    THEN [session |-> NoSession, authenticated |-> FALSE]
    ELSE [session |-> session, authenticated |-> authenticated]

\* QBittorrentClient._request without the authentication gate.
_request_NoGate(method, endpoint, payload, resp) ==
    IF session = NoSession
    THEN Did(Raise("AttributeError",
                   Msg("'NoneType' object has no attribute", 0, "request")), <<>>)
    ELSE LET made == <<Req(method, endpoint, payload)>>
         IN  IF resp.kind = "fail"
             THEN Did(IF IsClientError(resp.exc)
                      THEN Raise("APIError", Msg("Request error", 0, resp.exc))
                      ELSE Raise(resp.exc, NoMsg), made)
             ELSE IF resp.status = 403
             THEN Did(Raise("AuthenticationError",
                            Msg("Authentication token expired or invalid", 0, "")), made)
             ELSE IF resp.status >= 400
             THEN Did(Raise("APIError",
                            Msg("API request failed", resp.status, resp.body)), made)
             ELSE Did(Return(Data(resp.json, resp.body)), made)

\* QBittorrentClient._request with 403 treated like every other status >= 400.
_request_No403(method, endpoint, payload, resp) ==
    IF ~authenticated
    THEN Did(Raise("AuthenticationError",
                   Msg("Not authenticated. Call login() first.", 0, "")), <<>>)
    ELSE IF session = NoSession
    THEN Did(Raise("AttributeError",
                   Msg("'NoneType' object has no attribute", 0, "request")), <<>>)
    ELSE LET made == <<Req(method, endpoint, payload)>>
         IN  IF resp.kind = "fail"
             THEN Did(IF IsClientError(resp.exc)
                      THEN Raise("APIError", Msg("Request error", 0, resp.exc))
                      ELSE Raise(resp.exc, NoMsg), made)
             ELSE IF resp.status >= 400
             THEN Did(Raise("APIError",
                            Msg("API request failed", resp.status, resp.body)), made)
             ELSE Did(Return(Data(resp.json, resp.body)), made)

\* QBittorrentClient._request: fail fast when the flag is unset; otherwise one
\* call on the session.  403 is an AuthenticationError, any other status >= 400 an
\* APIError with the status and the body, anything below 400 returns the parsed
\* JSON or the text.  An aiohttp.ClientError becomes an APIError; any other
\* exception of the transport leaves the method as it is.
_request(method, endpoint, payload, resp) ==
    IF ~authenticated
    THEN Did(Raise("AuthenticationError",
                   Msg("Not authenticated. Call login() first.", 0, "")), <<>>)
    ELSE IF session = NoSession
    THEN Did(Raise("AttributeError",
                   Msg("'NoneType' object has no attribute", 0, "request")), <<>>)
    ELSE LET made == <<Req(method, endpoint, payload)>>
         IN  IF resp.kind = "fail"
             THEN Did(IF IsClientError(resp.exc)
                      THEN Raise("APIError", Msg("Request error", 0, resp.exc))
                      ELSE Raise(resp.exc, NoMsg), made)
             ELSE IF resp.status = 403
             THEN Did(Raise("AuthenticationError",
                            Msg("Authentication token expired or invalid", 0, "")), made)
             ELSE IF resp.status >= 400
             THEN Did(Raise("APIError",
                            Msg("API request failed", resp.status, resp.body)), made)
             ELSE Did(Return(Data(resp.json, resp.body)), made)

\* The arguments of a call; "" stands for None.
BaseArgs ==
    [hash |-> "abc", filter |-> "", category |-> "", paused |-> FALSE,
     delete_files |-> FALSE, action |-> "", url |-> "magnet:x", query |-> "ubuntu",
     id |-> "1", limit |-> ""]

get_torrent_list(a, resp) ==
    _request("GET", "/api/v2/torrents/info",
             Filtered({<<"filter", a.filter>>, <<"category", a.category>>}), resp)

get_torrent_properties(a, resp) ==
    _request("GET", "/api/v2/torrents/properties", {<<"hash", a.hash>>}, resp)

get_torrent_files(a, resp) ==
    _request("GET", "/api/v2/torrents/files", {<<"hash", a.hash>>}, resp)

add_torrent(a, resp) ==
    _request("POST", "/api/v2/torrents/add",
             Filtered({<<"urls", a.url>>, <<"savepath", "">>, <<"category", a.category>>})
                 \cup (IF a.paused THEN {<<"paused", "true">>} ELSE {}),
             resp)

pause_torrent(a, resp) ==
    _request("POST", "/api/v2/torrents/pause", {<<"hashes", a.hash>>}, resp)

resume_torrent(a, resp) ==
    _request("POST", "/api/v2/torrents/resume", {<<"hashes", a.hash>>}, resp)

delete_torrent(a, resp) ==
    _request("POST", "/api/v2/torrents/delete",
             {<<"hashes", a.hash>>,
              <<"deleteFiles", IF a.delete_files THEN "true" ELSE "false">>},
             resp)

start_search(a, resp) ==
    _request("POST", "/api/v2/search/start",
             {<<"pattern", a.query>>, <<"plugins", "all">>, <<"category", "all">>}, resp)

get_search_status(a, resp) ==
    _request("GET", "/api/v2/search/status", {<<"id", a.id>>}, resp)

get_search_results(a, resp) ==
    _request("GET", "/api/v2/search/results",
             {<<"id", a.id>>} \cup (IF a.limit # "" THEN {<<"limit", a.limit>>} ELSE {}),
             resp)

stop_search(a, resp) ==
    _request("POST", "/api/v2/search/stop", {<<"id", a.id>>}, resp)

delete_search(a, resp) ==
    _request("POST", "/api/v2/search/delete", {<<"id", a.id>>}, resp)

get_preferences(a, resp) ==
    _request("GET", "/api/v2/app/preferences", {}, resp)

get_version(a, resp) ==
    _request("GET", "/api/v2/app/version", {}, resp)

\* The API operations class QBittorrentClient defines.
ClientMethods ==
    {"get_torrent_list", "get_torrent_properties", "get_torrent_files", "add_torrent",
     "pause_torrent", "resume_torrent", "delete_torrent", "start_search",
     "get_search_status", "get_search_results", "stop_search", "delete_search",
     "get_preferences", "get_version"}

\* The names the tools and main.py call on the client that the class does not
\* define.
UndefinedNames == {"list_torrents", "get_torrent_info", "control_torrent", "search_torrents"}

CalledNames == ClientMethods \cup UndefinedNames

\* The argument choices that matter to each name.
ArgsOf(name) ==
    CASE name \in {"get_torrent_list", "list_torrents"} ->
             {[BaseArgs EXCEPT !.filter = f] : f \in {"", "paused"}}
      [] name = "add_torrent" ->
             {[BaseArgs EXCEPT !.paused = p] : p \in BOOLEAN}
      [] name = "delete_torrent" ->
             {[BaseArgs EXCEPT !.delete_files = d] : d \in BOOLEAN}
      [] name = "control_torrent" ->
             {[BaseArgs EXCEPT !.action = act] : act \in {"pause", "resume", "delete", "invalid"}}
      [] name = "get_search_results" ->
             {[BaseArgs EXCEPT !.limit = l] : l \in {"", "100"}}
      [] name = "search_torrents" ->
             {[BaseArgs EXCEPT !.limit = "100"]}
      [] OTHER -> {BaseArgs}

\* client.<name>(...): the attribute lookup on the instance, then the method.
Invoke(name, a, resp) ==
    CASE name = "get_torrent_list" -> get_torrent_list(a, resp)
      [] name = "get_torrent_properties" -> get_torrent_properties(a, resp)
      [] name = "get_torrent_files" -> get_torrent_files(a, resp)
      [] name = "add_torrent" -> add_torrent(a, resp)
      [] name = "pause_torrent" -> pause_torrent(a, resp)
      [] name = "resume_torrent" -> resume_torrent(a, resp)
      [] name = "delete_torrent" -> delete_torrent(a, resp)
      [] name = "start_search" -> start_search(a, resp)
      [] name = "get_search_status" -> get_search_status(a, resp)
      [] name = "get_search_results" -> get_search_results(a, resp)
      [] name = "stop_search" -> stop_search(a, resp)
      [] name = "delete_search" -> delete_search(a, resp)
      [] name = "get_preferences" -> get_preferences(a, resp)
      [] name = "get_version" -> get_version(a, resp)
      [] OTHER -> Did(Raise("AttributeError",
                            Msg("'QBittorrentClient' object has no attribute", 0, name)),
                      <<>>)

\* ------------------------------------------------------------- the tools

\* The exception classes that occur; all of them derive from Exception.
ExceptionClasses == ClientErrorKinds \cup {"AttributeError", "TimeoutError"}

\* A handler that catches the client's own error classes only.
ToolExcept_ClientErrorsOnly(cls) == cls \in ClientErrorKinds

\* `except Exception as e` of every tool.
ToolExcept(cls) == cls \in ExceptionClasses

\* What a tool hands back: the keys of the dict it returns, the success marker,
\* the error string, the data; `escaped` names an exception that left the tool.
Envelope(keys, success, error, data, escaped) ==
    [keys |-> keys, success |-> success, error |-> error, data |-> data,
     escaped |-> escaped]

NoEnvelope == Envelope({}, FALSE, NoMsg, NoValue, "")

\* The try/except of a tool around its one client call: the success dict with
\* the tool's own keys, or {"success": False, "error": str(e)}.
ToolReturn(okKeys, did) ==
    IF did.out.kind = "ok"
    THEN Envelope(okKeys, TRUE, NoMsg, did.out.value, "")
    ELSE IF ToolExcept(did.out.kind)
    THEN Envelope({"success", "error"}, FALSE, did.out.msg, NoValue, "")
    ELSE Envelope({}, FALSE, NoMsg, NoValue, did.out.kind)

\* ------------------------------------------------------------ the state

\* The state an operation started in.
Pre ==
    [authenticated |-> authenticated, session |-> session, scope |-> scope,
     sent |-> sent]

Ran(op, a, resp, script, did, env) ==
    [op |-> op, args |-> a, server |-> resp, script |-> script, pre |-> Pre,
     out |-> did.out, made |-> did.made, envelope |-> env]

Init ==
    /\ session = NoSession
    /\ authenticated = FALSE
    /\ scope = "out"
    /\ sent = 0
    /\ last = [op |-> "__init__", args |-> BaseArgs, server |-> NoResponse,
               script |-> <<>>, pre |-> [authenticated |-> FALSE, session |-> NoSession,
                                         scope |-> "out", sent |-> 0],
               out |-> Return(NoValue), made |-> <<>>, envelope |-> NoEnvelope]

\* An exception raised inside the async-with block leaves the block.
AfterRaise(raised) == IF scope = "in" /\ raised THEN "raising" ELSE scope

\* await client.login()
Login(resp) ==
    /\ scope # "raising"
    /\ sent < MaxSent
    /\ LET r == login(resp)
       IN  /\ session' = r.session
           /\ authenticated' = r.authenticated
           /\ sent' = sent + Len(r.made)
           /\ scope' = AfterRaise(r.out.kind # "ok")
           /\ last' = Ran("login", BaseArgs, resp, <<>>, Did(r.out, r.made), NoEnvelope)

\* await client.close()
Close ==
    /\ scope # "raising"
    /\ session' = close.session
    /\ authenticated' = close.authenticated
    /\ last' = Ran("close", BaseArgs, NoResponse, <<>>, Did(Return(NoValue), <<>>),
                   NoEnvelope)
    /\ UNCHANGED <<scope, sent>>

\* __aenter__: login(); when it raises the block is never entered and
\* __aexit__ does not run.
AEnter(resp) ==
    /\ scope = "out"
    /\ sent < MaxSent
    /\ LET r == login(resp)
       IN  /\ session' = r.session
           /\ authenticated' = r.authenticated
           /\ sent' = sent + Len(r.made)
           /\ scope' = IF r.out.kind = "ok" THEN "in" ELSE "out"
           /\ last' = Ran("__aenter__", BaseArgs, resp, <<>>, Did(r.out, r.made),
                          NoEnvelope)

\* __aexit__: close(), at the end of the block or when an exception leaves it.
AExit ==
    /\ scope \in {"in", "raising"}
    /\ session' = close.session
    /\ authenticated' = close.authenticated
    /\ scope' = "out"
    /\ last' = Ran("__aexit__", BaseArgs, NoResponse, <<>>, Did(Return(NoValue), <<>>),
                   NoEnvelope)
    /\ UNCHANGED sent

\* await client.<name>(...) with a 403 answer unsetting the flag.
Call_LogoutOn403(name, a, resp) ==
    /\ scope # "raising"
    /\ sent < MaxSent
    /\ LET did == Invoke(name, a, resp)
       IN  /\ Answered(resp, did.made)
           /\ sent' = sent + Len(did.made)
           /\ scope' = AfterRaise(did.out.kind # "ok")
           /\ last' = Ran(name, a, resp, <<>>, did, NoEnvelope)
           /\ authenticated' = (authenticated /\ ~(resp.kind = "http" /\ resp.status = 403))
    /\ UNCHANGED session

\* await client.<name>(...), by a caller inside or outside the block.
Call(name, a, resp) ==
    /\ scope # "raising"
    /\ sent < MaxSent
    /\ LET did == Invoke(name, a, resp)
       IN  /\ Answered(resp, did.made)
           /\ sent' = sent + Len(did.made)
           /\ scope' = AfterRaise(did.out.kind # "ok")
           /\ last' = Ran(name, a, resp, <<>>, did, NoEnvelope)
    /\ UNCHANGED <<session, authenticated>>

\* A tool: one call on the client inside try/except.
Tool(op, name, okKeys, a, resp, script) ==
    /\ scope # "raising"
    /\ sent < MaxSent
    /\ LET did == Invoke(name, a, resp)
           env == ToolReturn(okKeys, did)
       IN  /\ Answered(resp, did.made)
           /\ sent' = sent + Len(did.made)
           /\ scope' = AfterRaise(env.escaped # "")
           /\ last' = Ran(op, a, resp, script, did, env)
    /\ UNCHANGED <<session, authenticated>>

QbListTorrents(a, resp) ==
    Tool("qb_list_torrents", "list_torrents", {"success", "count", "torrents"},
         a, resp, <<>>)

QbTorrentInfo(a, resp) ==
    Tool("qb_torrent_info", "get_torrent_info", {"success", "info"}, a, resp, <<>>)

QbAddTorrent(a, resp) ==
    Tool("qb_add_torrent", "add_torrent", {"success", "message", "result"},
         a, resp, <<>>)

QbControlTorrent(a, resp) ==
    Tool("qb_control_torrent", "control_torrent", {"success", "message", "result"},
         a, resp, <<>>)

QbSearchTorrents(a, resp, script) ==
    Tool("qb_search_torrents", "search_torrents", {"success", "query", "results"},
         a, resp, script)

QbGetPreferences(a, resp) ==
    Tool("qb_get_preferences", "get_preferences", {"success", "preferences"},
         a, resp, <<>>)

ToolNames ==
    {"qb_list_torrents", "qb_torrent_info", "qb_add_torrent", "qb_control_torrent",
     "qb_search_torrents", "qb_get_preferences"}

Next ==
    \/ \E resp \in Responses : Login(resp)
    \/ Close
    \/ \E resp \in Responses : AEnter(resp)
    \/ AExit
    \/ \E name \in CalledNames : \E a \in ArgsOf(name) : \E resp \in Answers :
           Call(name, a, resp)
    \/ \E a \in ArgsOf("list_torrents") : \E resp \in Answers : QbListTorrents(a, resp)
    \/ \E resp \in Answers : QbTorrentInfo(BaseArgs, resp)
    \/ \E a \in ArgsOf("add_torrent") : \E resp \in Answers : QbAddTorrent(a, resp)
    \/ \E a \in ArgsOf("control_torrent") : \E resp \in Answers :
           QbControlTorrent(a, resp)
    \/ \E a \in ArgsOf("search_torrents") : \E resp \in Answers :
           \E script \in StatusScripts : QbSearchTorrents(a, resp, script)
    \/ \E resp \in Answers : QbGetPreferences(BaseArgs, resp)

Spec == Init /\ [][Next]_vars

\* ------------------------------------------------------------ the claims

\* The daemon answered every request of the last operation with a status below
\* 400 (an operation that sent nothing was refused nothing).
AnsweredOk == last.server.kind = "none" \/ (last.server.kind = "http" /\ last.server.status < 400)

Endpoints(made) == [i \in DOMAIN made |-> made[i].endpoint]

IsLogin200Ok(resp) == resp.kind = "http" /\ resp.status = 200 /\ resp.body = "Ok."

\* C1: an API operation of the client that starts while the authenticated flag
\* is unset fails with an AuthenticationError and sends no request.
C1_NoSessionFailsFast ==
    (last.op \in ClientMethods /\ ~last.pre.authenticated)
        => /\ last.out.kind = "AuthenticationError"
           /\ last.made = <<>>
           /\ sent = last.pre.sent

\* C1 witness: a get_preferences() after a failed first login (the HTTP session
\* is open, the flag unset) was refused without a request.
C1_Witness ==
    /\ last.op = "get_preferences"
    /\ ~last.pre.authenticated
    /\ last.pre.session = OpenSession
    /\ last.out.kind = "AuthenticationError"
    /\ last.pre.sent = 1
    /\ sent = 1

\* C2: login() (also as __aenter__) returns normally exactly when the daemon
\* answers 200 with the body "Ok.", and then the flag is set; any other
\* status/body is an AuthenticationError, and from an unset flag the flag is
\* set exactly by the 200/"Ok." answer.
C2_LoginIffOk ==
    (last.op \in {"login", "__aenter__"})
        => /\ (last.out.kind = "ok") <=> IsLogin200Ok(last.server)
           /\ last.out.kind = "ok" => authenticated
           /\ (last.server.kind = "http" /\ ~IsLogin200Ok(last.server))
                  => last.out.kind = "AuthenticationError"
           /\ ~last.pre.authenticated => (authenticated <=> IsLogin200Ok(last.server))

\* C2 witness: a first login answered 200 "Fails." raised AuthenticationError
\* and left the flag unset.
C2_Witness ==
    /\ last.op = "login"
    /\ ~last.pre.authenticated
    /\ last.server = HttpResponse(200, "Fails.", FALSE)
    /\ last.out.kind = "AuthenticationError"
    /\ ~authenticated

\* C3: the search tool, with the flag set and status polls reporting Running,
\* Running, Stopped, sends start, three status polls, one results fetch and
\* one delete, in this order, and returns the results.
C3_SearchCallOrder ==
    (/\ last.op = "qb_search_torrents"
     /\ last.pre.authenticated
     /\ last.script = <<"Running", "Running", "Stopped">>
     /\ AnsweredOk)
        => /\ Endpoints(last.made) =
                  <<"/api/v2/search/start", "/api/v2/search/status",
                    "/api/v2/search/status", "/api/v2/search/status",
                    "/api/v2/search/results", "/api/v2/search/delete">>
           /\ last.envelope.success

\* C4: the search tool, with the flag set and a job that never reports
\* Stopped, sends start, exactly 30 status polls, the results fetch and the
\* delete (32 requests), and returns the results without an error.
C4_SearchPollCeiling ==
    (/\ last.op = "qb_search_torrents"
     /\ last.pre.authenticated
     /\ last.script = <<"Running">>
     /\ AnsweredOk)
        => /\ Len(last.made) = 32
           /\ Len(SelectSeq(Endpoints(last.made),
                            LAMBDA e : e = "/api/v2/search/status")) = 30
           /\ last.made[Len(last.made) - 1].endpoint = "/api/v2/search/results"
           /\ last.made[Len(last.made)].endpoint = "/api/v2/search/delete"
           /\ last.envelope.success

\* C5: with the flag set and every request answered below 400, each tool
\* returns the success marker with its data, and list_torrents() and
\* get_preferences() called inside the async-with block return normally.
C5_ToolsSucceed ==
    /\ (last.op \in ToolNames /\ last.pre.authenticated /\ AnsweredOk)
           => /\ last.envelope.success
              /\ last.envelope.keys \ {"success"} # {}
    /\ (/\ last.op \in {"list_torrents", "get_preferences"}
        /\ last.pre.scope = "in"
        /\ last.pre.authenticated
        /\ AnsweredOk)
           => last.out.kind = "ok"

\* C6: a request sent with the flag set and answered over HTTP ends by the
\* status alone: 403 is an AuthenticationError, any other status >= 400 an
\* APIError carrying the status and the body, anything else returns; exactly
\* one request is sent, to the operation's own endpoint, and the client state
\* is not touched.
C6_StatusDecides ==
    (last.op \in ClientMethods /\ last.pre.authenticated /\ last.server.kind = "http")
        => /\ last.server.status = 403 => last.out.kind = "AuthenticationError"
           /\ (last.server.status >= 400 /\ last.server.status # 403)
                  => /\ last.out.kind = "APIError"
                     /\ last.out.msg.status = last.server.status
                     /\ last.out.msg.detail = last.server.body
           /\ last.server.status < 400 => last.out.kind = "ok"
           /\ Len(last.made) = 1
           /\ last.made[1].endpoint # "/api/v2/auth/login"
           /\ sent = last.pre.sent + 1
           /\ authenticated = last.pre.authenticated
           /\ session = last.pre.session

\* C6 witness: a POST operation answered 403 raised AuthenticationError after
\* one request.
C6_Witness ==
    /\ last.op = "pause_torrent"
    /\ last.pre.authenticated
    /\ last.server.status = 403
    /\ last.out.kind = "AuthenticationError"
    /\ Len(last.made) = 1
    /\ last.made[1].method = "POST"

C8_ScopeReleases ==
    (\/ last.op = "__aexit__"
     \/ (last.op = "__aenter__" /\ last.out.kind # "ok"))
        => (session = NoSession /\ ~authenticated)

\* C9: a transport failure during login() is an AuthenticationError, and
\* during a request with the flag set an APIError wrapping the cause.
C9_TransportClassified ==
    (last.server.kind = "fail")
        => IF last.op \in {"login", "__aenter__"}
           THEN last.out.kind = "AuthenticationError"
           ELSE last.out.kind = "APIError" /\ last.out.msg.detail = last.server.exc

\* C10: the control operation sends exactly one POST to the endpoint of a
\* recognized action with the given hashes, and for any other action name
\* fails with an APIError without a request.
C10_ControlDispatch ==
    (/\ last.op \in {"control_torrent", "qb_control_torrent"}
     /\ last.pre.authenticated
     /\ AnsweredOk)
        => IF last.args.action \in {"pause", "resume", "delete"}
           THEN /\ Len(last.made) = 1
                /\ last.made[1].method = "POST"
                /\ last.made[1].endpoint =
                       (CASE last.args.action = "pause" -> "/api/v2/torrents/pause"
                          [] last.args.action = "resume" -> "/api/v2/torrents/resume"
                          [] last.args.action = "delete" -> "/api/v2/torrents/delete")
                /\ <<"hashes", last.args.hash>> \in last.made[1].payload
           ELSE /\ last.out.kind = "APIError"
                /\ last.made = <<>>

\* C11: close() returns normally, leaves the HTTP session released and the
\* flag unset, and changes nothing when no session is held (a second close(),
\* or a close() before any login); a login() answered 200 "Ok." on the closed
\* client opens a session and sets the flag again.
C11_CloseIdempotent ==
    /\ (last.op = "close")
           => /\ last.out.kind = "ok"
              /\ session = NoSession
              /\ ~authenticated
              /\ sent = last.pre.sent
              /\ last.pre.session = NoSession
                     => (session = last.pre.session
                         /\ authenticated = last.pre.authenticated)
    /\ (/\ last.op = "login"
        /\ last.pre.session = NoSession
        /\ IsLogin200Ok(last.server))
           => (last.out.kind = "ok" /\ authenticated /\ session = OpenSession)

\* C11 witness: a close() on a client whose session had been opened (a
\* request was sent) and already released again returned normally.
C11_Witness ==
    /\ last.op = "close"
    /\ last.pre.sent >= 1
    /\ last.pre.session = NoSession
    /\ last.out.kind = "ok"
    /\ session = NoSession
    /\ ~authenticated

\* C12: whenever the flag is set the HTTP session is held, and no request
\* that passed the gate found the session missing.
C12_AuthenticatedHoldsSession ==
    /\ authenticated => session # NoSession
    /\ (last.op \in ClientMethods /\ last.pre.authenticated)
           => (last.pre.session # NoSession /\ last.out.kind # "AttributeError")

\* C12 witness: a request passed the gate and went out on the held session.
C12_Witness ==
    /\ last.op \in ClientMethods
    /\ last.pre.authenticated
    /\ last.pre.session = OpenSession
    /\ Len(last.made) = 1
    /\ authenticated

\* The step is a call of an API method of the client.
IsRequestStep == last'.op \in ClientMethods /\ last'.pre = Pre

\* C13: a request that ends in an error (403, another status >= 400, a
\* transport failure) leaves the flag and the HTTP session as they were; and
\* the request that follows a 403 is sent to the daemon, not refused at the
\* gate.
C13_FailedRequestFrame ==
    /\ [](( last.op \in ClientMethods /\ last.out.kind # "ok")
             => (authenticated = last.pre.authenticated
                 /\ session = last.pre.session))
    /\ [][(/\ last.op \in ClientMethods
           /\ last.server.kind = "http"
           /\ last.server.status = 403
           /\ last.made # <<>>
           /\ IsRequestStep)
              => (Len(last'.made) = 1 /\ sent' = sent + 1)]_vars

\* C13 witness: a request answered 403 raised AuthenticationError and the
\* client still counts as authenticated, with its session held.
C13_Witness ==
    /\ last.op \in ClientMethods
    /\ last.server.kind = "http"
    /\ last.server.status = 403
    /\ last.out.kind = "AuthenticationError"
    /\ authenticated
    /\ session = OpenSession

\* C14: a login() that fails (as login() or as __aenter__) leaves the flag as
\* it was and the HTTP session open; an open session is released by close()
\* (directly or through __aexit__) and by nothing else.
C14_FailedLoginFrame ==
    /\ []((last.op \in {"login", "__aenter__"} /\ last.out.kind # "ok")
             => (authenticated = last.pre.authenticated
                 /\ session = OpenSession))
    /\ [][(session = OpenSession /\ session' = NoSession)
              => last'.op \in {"close", "__aexit__"}]_vars

\* C14 witness: a failed re-login on an authenticated client left it
\* authenticated.
C14_Witness ==
    /\ last.op = "login"
    /\ last.pre.authenticated
    /\ last.out.kind # "ok"
    /\ authenticated
    /\ session = OpenSession

====
